---- MODULE Spec2Model ----
(***************************************************************************)
(* Model of the LiteRT image-classification sample                        *)
(* (compiled_model_api/image_classification/python/imagenet-e2e-sample/    *)
(* main.py): shape inference, preprocessing selection, resize/crop         *)
(* geometry, output dtype selection, label reconciliation and top-k        *)
(* reporting.                                                              *)
(*                                                                         *)
(* Conventions.  Python text is a sequence of one-character strings, so    *)
(* that strip, lower, partition, basename and concatenation are computed.  *)
(* An optional value (Python None or a value) is <<>> or <<v>>.  Python    *)
(* lists are 1-based sequences here: dims[k] of the source is d[k+1] and   *)
(* dims[-1] is d[Len(d)].  An exception that leaves a function is the      *)
(* field exc of its result and ends up in the variable raised.             *)
(***************************************************************************)
EXTENDS Integers, Sequences, FiniteSets, TLC

VARIABLES
    pc,            \* position in _classify
    raised,        \* name of the exception that escaped, "none" otherwise
    requirements,  \* _infer_input_size: outcome of get_input_buffer_requirements
    input_size,    \* _classify: (input_height, input_width)
    model_path,    \* args.model
    preprocess,    \* _classify: the dict returned by _pick_preprocess_config
    image_size,    \* _load_image: (width, height) of the opened image
    resized,       \* _load_image: (new_width, new_height)
    crop_box,      \* _load_image: the box handed to image.crop
    out_requirements, \* _classify: output_requirements
    output_dtype,  \* _read_output: output_dtype
    num_elements,  \* _read_output: num_elements
    labels_file,   \* the file behind args.labels
    metadata_file, \* the file behind args.metadata
    output_size,   \* _pick_labels_for_output: output_size
    synsets,       \* _build_imagenet_labels: synsets after reconciliation
    metadata,      \* _build_imagenet_labels: metadata
    labels,        \* the label table, or None
    warned,        \* whether the fall-back warning was printed
    flat,          \* _print_topk: flat
    top_k,         \* args.top_k
    printed        \* lines written by _print_topk

vars == <<pc, raised, requirements, input_size, model_path, preprocess,
          image_size, resized, crop_box, out_requirements, output_dtype,
          num_elements, labels_file, metadata_file, output_size, synsets,
          metadata, labels, warned, flat, top_k, printed>>

shapeVars  == <<requirements, input_size>>
prepVars   == <<model_path, preprocess>>
imageVars  == <<image_size, resized, crop_box>>
outputVars == <<out_requirements, output_dtype, num_elements>>
labelVars  == <<labels_file, metadata_file, output_size, synsets, metadata,
                labels, warned>>
topkVars   == <<flat, top_k, printed>>

-----------------------------------------------------------------------------
(* Bounds of the model. *)

MaxRank == 5       \* longest dimension list
MaxImageDim == 7   \* largest image width and height
MaxResize == 8     \* largest resize_size passed to _load_image directly
MaxCrop == 3       \* largest crop size passed to _load_image directly

-----------------------------------------------------------------------------
(* Generic helpers. *)

None == <<>>
Some(v) == <<v>>

Max(a, b) == IF a >= b THEN a ELSE b
Min(a, b) == IF a <= b THEN a ELSE b

SeqsUpTo(S, n) == UNION {[1..k -> S] : k \in 0..n}

\* dict.get(key): None when the key is missing
Get(d, k) == IF k \in DOMAIN d THEN Some(d[k]) ELSE None

\* Python's truth value of dict.get(key) for a list-valued entry
Truthy(opt) == opt # None /\ opt[1] # <<>>

\* x or y
Or(x, y) == IF Truthy(x) THEN x ELSE y

\* int(round(num / den)) for den > 0: Python 3 rounds halves to even
RoundHalfEven(num, den) ==
    LET q == num \div den
        r == num % den
    IN  IF 2 * r < den THEN q
        ELSE IF 2 * r > den THEN q + 1
        ELSE IF q % 2 = 0 THEN q ELSE q + 1

-----------------------------------------------------------------------------
(* Shape Inferrer: _infer_input_size. *)

default_size == <<224, 224>>

Num(n) == [num |-> TRUE, val |-> n]
NaN == [num |-> FALSE, val |-> 0]

\* entries a dimension list may hold: integers, or something int() rejects
DimEntries == {Num(-1), Num(1), Num(3), Num(192), Num(224), NaN}

DimLists == SeqsUpTo(DimEntries, MaxRank)

NCHW == <<Num(1), Num(3), Num(192), Num(224)>>
NHWC == <<Num(1), Num(224), Num(192), Num(3)>>

ProbeEntries == {None, Some(<<>>), Some(NCHW), Some(NHWC)}

DictOf(a, b, c) ==
    LET val == [dimensions |-> a, shape |-> b, dims |-> c]
        keys == {k \in {"dimensions", "shape", "dims"} : val[k] # None}
    IN  [k \in keys |-> val[k][1]]

EmptyDict == DictOf(None, None, None)

RequirementDicts ==
    {DictOf(Some(l), None, None) : l \in DimLists}
        \cup {DictOf(a, b, c) : a \in ProbeEntries, b \in ProbeEntries, c \in ProbeEntries}

\* what model.get_input_buffer_requirements(0, signature_index) can do
QueryOutcomes ==
    {[kind |-> "raise", dict |-> EmptyDict], [kind |-> "none", dict |-> EmptyDict]}
        \cup {[kind |-> "dict", dict |-> d] : d \in RequirementDicts}

Returns(v) == [exc |-> "none", value |-> v]
Raises(e) == [exc |-> e, value |-> None]

\* lines 93-97
PickDims(d) == Or(Or(Get(d, "dimensions"), Get(d, "shape")), Get(d, "dims"))

\* lines 101-104: None when int() raises for some entry
IntDims(dims) ==
    IF \E i \in 1..Len(dims) : ~dims[i].num
    THEN None
    ELSE Some([i \in 1..Len(dims) |-> dims[i].val])

\* lines 112-117
Rank3Rule(d) ==
    IF Len(d) = 3 /\ d[1] = 3 THEN <<d[2], d[3]>>
    ELSE IF Len(d) = 3 /\ d[3] = 3 THEN <<d[1], d[2]>>
    ELSE default_size

\* lines 105-117 (LayoutRuleChannelLastFirst: the two layout tests exchanged)
LayoutRuleChannelLastFirst(d) ==
    IF Len(d) = 4
    THEN IF d[4] = 3 THEN <<d[2], d[3]>>
         ELSE IF d[2] = 3 THEN <<d[3], d[4]>>
         ELSE IF d[1] \in {1, -1} THEN Rank3Rule(Tail(d))
         ELSE Rank3Rule(d)
    ELSE Rank3Rule(d)

LayoutRule(d) ==
    IF Len(d) = 4
    THEN IF d[2] = 3 THEN <<d[3], d[4]>>
         ELSE IF d[4] = 3 THEN <<d[2], d[3]>>
         ELSE IF d[1] \in {1, -1} THEN Rank3Rule(Tail(d))
         ELSE Rank3Rule(d)
    ELSE Rank3Rule(d)

\* lines 85-117
_infer_input_size(q) ==
    IF q.kind = "raise" THEN Returns(default_size)
    ELSE IF q.kind = "none" THEN Raises("AttributeError")
    ELSE LET dims == PickDims(q.dict)
         IN  IF ~Truthy(dims) THEN Returns(default_size)
             ELSE LET ints == IntDims(dims[1])
                  IN  IF ints = None THEN Returns(default_size)
                      ELSE Returns(LayoutRule(ints[1]))

-----------------------------------------------------------------------------
(* Preprocess Selector: _pick_preprocess_config. *)

Upper == <<"B", "C", "E", "F", "I", "L", "M", "N", "S", "T", "V">>
Lower == <<"b", "c", "e", "f", "i", "l", "m", "n", "s", "t", "v">>

\* str.lower() on the letters the model paths use
LowerChar(c) ==
    IF \E i \in 1..Len(Upper) : Upper[i] = c
    THEN Lower[CHOOSE i \in 1..Len(Upper) : Upper[i] = c]
    ELSE c

ToLower(s) == [i \in 1..Len(s) |-> LowerChar(s[i])]

\* os.path.basename: what follows the last "/"
Basename(s) ==
    LET slashes == {i \in 1..Len(s) : s[i] = "/"}
    IN  IF slashes = {} THEN s
        ELSE LET last == CHOOSE i \in slashes : \A j \in slashes : j <= i
             IN  SubSeq(s, last + 1, Len(s))

\* pat in s
Contains(s, pat) ==
    \E i \in 1..(Len(s) - Len(pat) + 1) : SubSeq(s, i, i + Len(pat) - 1) = pat

Pat_v2_s == <<"e","f","f","i","c","i","e","n","t","n","e","t","_","v","2","_","s">>
Pat_v2_m == <<"e","f","f","i","c","i","e","n","t","n","e","t","_","v","2","_","m">>
Pat_v2_l == <<"e","f","f","i","c","i","e","n","t","n","e","t","_","v","2","_","l">>
Pat_b == <<"e","f","f","i","c","i","e","n","t","n","e","t","_","b">>

\* values of --model
ModelPaths == {
    <<"m","o","b","i","l","e","n","e","t","_","v","2",".","t","f","l","i","t","e">>,
    <<"/","m","/","E","f","f","i","c","i","e","n","t","N","e","t","_","V","2","_","S",".","t","f","l","i","t","e">>,
    <<"e","f","f","i","c","i","e","n","t","n","e","t","_","v","2","_","m",".","t","f","l","i","t","e">>,
    <<"E","F","F","I","C","I","E","N","T","N","E","T","_","V","2","_","L">>,
    <<"e","f","f","i","c","i","e","n","t","n","e","t","_","b","0",".","t","f","l","i","t","e">>,
    <<"e","f","f","i","c","i","e","n","t","n","e","t","_","b","7","/","r","e","s","n","e","t","5","0",".","t","f","l","i","t","e">>,
    <<"e","f","f","i","c","i","e","n","t","n","e","t","_","v","2",".","t","f","l","i","t","e">>
}

\* mean and std in thousandths
ImagenetMean == <<485, 456, 406>>
ImagenetStd == <<229, 224, 225>>
HalfMean == <<500, 500, 500>>
HalfStd == <<500, 500, 500>>

Config(resize, ch, cw, mean, std, resample) ==
    [resize_size |-> resize, crop_height |-> ch, crop_width |-> cw,
     mean |-> mean, std |-> std, resample |-> resample]

\* lines 123-159: the family whose pattern the lower-cased basename contains
FamilyOf(path) ==
    LET model_name == ToLower(Basename(path))
    IN  IF Contains(model_name, Pat_v2_s) THEN "efficientnet_v2_s"
        ELSE IF Contains(model_name, Pat_v2_m) THEN "efficientnet_v2_m"
        ELSE IF Contains(model_name, Pat_v2_l) THEN "efficientnet_v2_l"
        ELSE IF Contains(model_name, Pat_b) THEN "efficientnet_b"
        ELSE "generic"

\* lines 160-161
CropOrDefault(input_dim) == IF input_dim > 0 THEN input_dim ELSE 224

\* line 162: int(round(max(crop_height, crop_width) / 0.875))
\* (GenericResizeMin: min in place of max)
GenericResizeMin(crop_height, crop_width) ==
    RoundHalfEven(8 * Min(crop_height, crop_width), 7)

GenericResize(crop_height, crop_width) ==
    RoundHalfEven(8 * Max(crop_height, crop_width), 7)

\* lines 160-170
GenericConfig(input_height, input_width) ==
    LET crop_height == CropOrDefault(input_height)
        crop_width == CropOrDefault(input_width)
    IN  Config(GenericResize(crop_height, crop_width), crop_height, crop_width,
               ImagenetMean, ImagenetStd, "BILINEAR")

\* lines 120-170
_pick_preprocess_config(path, input_height, input_width) ==
    LET family == FamilyOf(path)
    IN  IF family = "efficientnet_v2_s"
        THEN Config(384, 384, 384, ImagenetMean, ImagenetStd, "BILINEAR")
        ELSE IF family = "efficientnet_v2_m"
        THEN Config(480, 480, 480, ImagenetMean, ImagenetStd, "BILINEAR")
        ELSE IF family = "efficientnet_v2_l"
        THEN Config(480, 480, 480, HalfMean, HalfStd, "BICUBIC")
        ELSE IF family = "efficientnet_b"
        THEN Config(600, 600, 600, ImagenetMean, ImagenetStd, "BICUBIC")
        ELSE GenericConfig(input_height, input_width)

-----------------------------------------------------------------------------
(* Image Transformer: the geometry of _load_image. *)

ImageSizes == {<<w, h>> : w \in 1..MaxImageDim, h \in 1..MaxImageDim}

\* lines 68-73: (new_width, new_height)
\* (ResizedDimsFloor: int() without round(); ResizedDimsLongerSide: the
\* comparison of line 68 reversed)
ResizedDimsFloor(width, height, resize_size) ==
    IF width < height
    THEN <<resize_size, (height * resize_size) \div width>>
    ELSE <<(width * resize_size) \div height, resize_size>>

ResizedDimsLongerSide(width, height, resize_size) ==
    IF width > height
    THEN <<resize_size, RoundHalfEven(height * resize_size, width)>>
    ELSE <<RoundHalfEven(width * resize_size, height), resize_size>>

ResizedDims(width, height, resize_size) ==
    IF width < height
    THEN <<resize_size, RoundHalfEven(height * resize_size, width)>>
    ELSE <<RoundHalfEven(width * resize_size, height), resize_size>>

\* lines 75-76
CropOffset(resized_dim, crop_dim) == RoundHalfEven(resized_dim - crop_dim, 2)

\* lines 75-77: (left, top, right, bottom)
CropBox(new_width, new_height, crop_width, crop_height) ==
    LET left == CropOffset(new_width, crop_width)
        top == CropOffset(new_height, crop_height)
    IN  <<left, top, left + crop_width, top + crop_height>>

\* lines 60-77
_load_image(size, channels, cfg) ==
    IF channels # 3 THEN Raises("ValueError")
    ELSE IF cfg.resize_size <= 0 \/ cfg.crop_height <= 0 \/ cfg.crop_width <= 0
    THEN Raises("ValueError")
    ELSE LET new == ResizedDims(size[1], size[2], cfg.resize_size)
         IN  Returns([resized |-> new,
                      box |-> CropBox(new[1], new[2], cfg.crop_width, cfg.crop_height)])

-----------------------------------------------------------------------------
(* Output Decoder: _pick_output_dtype and _read_output. *)

MaxTypes == 3
MaxBufferSize == 8

\* LiteRT element type identifiers a runtime may list (4: int64, 10: float16)
TypeIds == {1, 2, 3, 9, 4, 10}

\* lines 29-34
LitertTypeIds == {1, 9, 3, 2}

_LITERT_TYPE_TO_NP ==
    [id \in LitertTypeIds |->
        IF id = 1 THEN "float32"
        ELSE IF id = 9 THEN "int8"
        ELSE IF id = 3 THEN "uint8"
        ELSE "int32"]

\* np.dtype(t).itemsize
ItemSize(dtype) == IF dtype \in {"float32", "int32"} THEN 4 ELSE 1

\* dict.get(key, default)
GetOr(d, k, default) == IF k \in DOMAIN d THEN d[k] ELSE default

InList(x, list) == \E i \in 1..Len(list) : list[i] = x

\* line 175 (PreferenceUint8First: uint8 ahead of int8)
PreferenceUint8First == <<1, 3, 9, 2>>

PreferenceOrder == <<1, 9, 3, 2>>

\* lines 173-180
_pick_output_dtype(req) ==
    LET supported == GetOr(req, "supported_types", <<>>)
        hits == {i \in 1..Len(PreferenceOrder) : InList(PreferenceOrder[i], supported)}
    IN  IF hits # {}
        THEN _LITERT_TYPE_TO_NP[PreferenceOrder[CHOOSE i \in hits : \A j \in hits : i <= j]]
        ELSE IF supported # <<>>
        THEN GetOr(_LITERT_TYPE_TO_NP, supported[1], "float32")
        ELSE "float32"

\* lines 183-190
_read_output(req) ==
    LET dtype == _pick_output_dtype(req)
        buffer_size == GetOr(req, "buffer_size", 0)
        itemsize == ItemSize(dtype)
        n == IF itemsize # 0 THEN buffer_size \div itemsize ELSE buffer_size
    IN  IF n = 0
        THEN [exc |-> "ValueError", dtype |-> dtype, num_elements |-> n]
        ELSE [exc |-> "none", dtype |-> dtype, num_elements |-> n]

SupportedLists == SeqsUpTo(TypeIds, MaxTypes)

\* what model.get_output_buffer_requirements(0, signature_index) can return
OutputRequirementDicts ==
    {[supported_types |-> l, buffer_size |-> b] :
        l \in SupportedLists, b \in 0..MaxBufferSize}
        \cup {[supported_types |-> l] : l \in SupportedLists}
        \cup {[buffer_size |-> b] : b \in 0..MaxBufferSize}

-----------------------------------------------------------------------------
(* Label Resolver: _load_synsets, _load_metadata, _build_imagenet_labels. *)

MaxLines == 3
MaxMetaLines == 2
MaxOutputSize == 4

TAB == "\t"
Whitespace == {" ", TAB}

RECURSIVE LStrip(_)
LStrip(s) == IF s # <<>> /\ Head(s) \in Whitespace THEN LStrip(Tail(s)) ELSE s

RECURSIVE RStrip(_)
RStrip(s) ==
    IF s # <<>> /\ s[Len(s)] \in Whitespace THEN RStrip(SubSeq(s, 1, Len(s) - 1)) ELSE s

\* str.strip()
Strip(s) == RStrip(LStrip(s))

\* str.partition(sep): (before, sep, after), split at the first sep
Partition(s, sep) ==
    LET at == {i \in 1..Len(s) : s[i] = sep}
    IN  IF at = {} THEN <<s, <<>>, <<>>>>
        ELSE LET first == CHOOSE i \in at : \A j \in at : i <= j
             IN  <<SubSeq(s, 1, first - 1), <<sep>>, SubSeq(s, first + 1, Len(s))>>

\* a file on disk: args name no path, the path names no file, or its lines
NoPath == [kind |-> "nopath", lines |-> <<>>]
MissingFile == [kind |-> "missing", lines |-> <<>>]
FileOf(lines) == [kind |-> "file", lines |-> lines]

Background == <<"b","a","c","k","g","r","o","u","n","d">>

LabelLines == {<<" ">>, <<"a">>, <<"b">>, <<" ", "a", " ">>}

LabelFiles == {NoPath, MissingFile} \cup {FileOf(l) : l \in SeqsUpTo(LabelLines, MaxLines)}

MetaLines == {
    <<"a", TAB, "x">>,
    <<"a", TAB, "a">>,
    <<" ", "b", TAB, "y", TAB, "z", " ">>,
    <<"a">>,
    <<"b","a","c","k","g","r","o","u","n","d", TAB, "x">>
}

MetadataFiles ==
    {NoPath, MissingFile} \cup {FileOf(l) : l \in SeqsUpTo(MetaLines, MaxMetaLines)}

OutputSizes == 1..MaxOutputSize

\* line 204: [line.strip() for line in f if line.strip()]
RECURSIVE StrippedLines(_)
StrippedLines(lines) ==
    IF lines = <<>> THEN <<>>
    ELSE LET line == Strip(Head(lines))
         IN  IF line # <<>> THEN <<line>> \o StrippedLines(Tail(lines))
             ELSE StrippedLines(Tail(lines))

\* lines 200-204
_load_synsets(file) ==
    IF file.kind = "nopath" THEN Returns(None)
    ELSE IF file.kind = "missing" THEN Raises("FileNotFoundError")
    ELSE Returns(Some(StrippedLines(file.lines)))

\* a dict as its items in insertion order
DictKeys(m) == {m[i][1] : i \in 1..Len(m)}

DictGet(m, k, default) ==
    IF k \in DictKeys(m) THEN m[CHOOSE i \in 1..Len(m) : m[i][1] = k][2] ELSE default

DictSet(m, k, v) ==
    IF k \in DictKeys(m)
    THEN [i \in 1..Len(m) |-> IF m[i][1] = k THEN <<k, v>> ELSE m[i]]
    ELSE Append(m, <<k, v>>)

\* lines 212-218
RECURSIVE MetadataFold(_, _)
MetadataFold(lines, mapping) ==
    IF lines = <<>> THEN mapping
    ELSE LET line == Strip(Head(lines))
             parts == Partition(line, TAB)
             synset == parts[1]
             label == parts[3]
         IN  IF line = <<>> THEN MetadataFold(Tail(lines), mapping)
             ELSE IF synset # <<>> /\ label # <<>>
             THEN MetadataFold(Tail(lines), DictSet(mapping, synset, label))
             ELSE MetadataFold(Tail(lines), mapping)

\* lines 207-219
_load_metadata(file) ==
    IF file.kind = "nopath" THEN Returns(<<>>)
    ELSE IF file.kind = "missing" THEN Raises("FileNotFoundError")
    ELSE Returns(MetadataFold(file.lines, <<>>))

\* lines 226-227 (WithBackgroundAppended: the entry added at the end)
WithBackgroundAppended(list, size) ==
    IF size = Len(list) + 1 THEN list \o <<Background>> ELSE list

WithBackground(list, size) ==
    IF size = Len(list) + 1 THEN <<Background>> \o list ELSE list

\* lines 223-229: the reconciled synsets, None when resolution stops there
Reconcile(file, size) ==
    LET loaded == _load_synsets(file)
    IN  IF loaded.exc # "none" THEN loaded
        ELSE IF loaded.value = None \/ loaded.value[1] = <<>> THEN Returns(None)
        ELSE LET list == WithBackground(loaded.value[1], size)
             IN  IF size # Len(list) THEN Returns(None) ELSE Returns(Some(list))

\* lines 233-234 (LabelTextAlwaysPair: without the test label != synset)
LabelTextAlwaysPair(synset, mapping) == synset \o <<" ">> \o DictGet(mapping, synset, synset)

LabelText(synset, mapping) ==
    LET label == DictGet(mapping, synset, synset)
    IN  IF label # synset THEN synset \o <<" ">> \o label ELSE synset

\* lines 222-235
_build_imagenet_labels(file, meta_file, size) ==
    LET rec == Reconcile(file, size)
        stop == [exc |-> rec.exc, value |-> None, synsets |-> rec.value,
                 metadata |-> None]
    IN  IF rec.exc # "none" \/ rec.value = None THEN stop
        ELSE LET list == rec.value[1]
                 loaded == _load_metadata(meta_file)
             IN  IF loaded.exc # "none"
                 THEN [exc |-> loaded.exc, value |-> None, synsets |-> rec.value,
                       metadata |-> None]
                 ELSE [exc |-> "none",
                       value |-> Some([i \in 1..Len(list) |-> LabelText(list[i], loaded.value)]),
                       synsets |-> rec.value,
                       metadata |-> Some(loaded.value)]

-----------------------------------------------------------------------------
(* Top-k reporting: _print_topk. *)

MaxClasses == 3
MaxScore == 3
MaxTopK == 4

Digits == <<"0", "1", "2", "3", "4", "5", "6", "7", "8", "9">>

\* f"class_{idx}"
ClassName(idx) == <<"c", "l", "a", "s", "s", "_", Digits[idx + 1]>>

\* probabilities as levels 1..MaxScore: _print_topk only compares them
ScoreVectors == SeqsUpTo(1..MaxScore, MaxClasses) \ {<<>>}

TopKValues == -1..MaxTopK

\* a label table of the output's length, as _build_imagenet_labels returns it
TableOf(n) == [i \in 1..n |-> <<"n", Digits[i]>>]

Reverse(s) == [i \in 1..Len(s) |-> s[Len(s) + 1 - i]]

\* s[start:]
SliceFrom(s, start) ==
    LET n == Len(s)
        from == IF start < 0 THEN Max(n + start, 0) ELSE Min(start, n)
    IN  SubSeq(s, from + 1, n)

\* np.argsort(flat): indices (from 0) in ascending order of score; the order
\* of equal scores is not fixed by the default sort
ArgsortOutcomes(v) ==
    {p \in [1..Len(v) -> 0..(Len(v) - 1)] :
        /\ \A i, j \in 1..Len(v) : i # j => p[i] # p[j]
        /\ \A i \in 1..(Len(v) - 1) : v[p[i] + 1] <= v[p[i + 1] + 1]}

\* np.argmax(flat): the first index of the maximum
Argmax(v) ==
    CHOOSE i \in 0..(Len(v) - 1) :
        /\ \A j \in 0..(Len(v) - 1) : v[j + 1] <= v[i + 1]
        /\ \A j \in 0..(i - 1) : v[j + 1] < v[i + 1]

\* lines 251-255
TopIndices(v, k, order) ==
    LET clamped == Min(k, Len(v))
    IN  IF clamped = 1 THEN <<Argmax(v)>> ELSE Reverse(SliceFrom(order, 0 - clamped))

\* line 257
LabelFor(table, idx) ==
    IF table # None /\ table[1] # <<>> /\ idx < Len(table[1])
    THEN table[1][idx + 1]
    ELSE ClassName(idx)

\* lines 249-258: the printed lines
_print_topk(v, table, k, order) ==
    LET indices == TopIndices(v, k, order)
    IN  [rank \in 1..Len(indices) |->
            [rank |-> rank, idx |-> indices[rank],
             label |-> LabelFor(table, indices[rank]),
             score |-> v[indices[rank] + 1]]]

-----------------------------------------------------------------------------
(* _classify up to the runtime call: lines 440-451. *)

Unset ==
    /\ raised = "none"
    /\ requirements = None
    /\ input_size = <<>>
    /\ model_path = <<>>
    /\ preprocess = None
    /\ image_size = <<>>
    /\ resized = <<>>
    /\ crop_box = <<>>
    /\ out_requirements = None
    /\ output_dtype = ""
    /\ num_elements = 0
    /\ labels_file = None
    /\ metadata_file = None
    /\ output_size = 0
    /\ synsets = None
    /\ metadata = None
    /\ labels = None
    /\ warned = FALSE
    /\ flat = <<>>
    /\ top_k = 0
    /\ printed = <<>>

Init ==
    /\ pc = "start"
    /\ Unset

\* line 440: the runtime answers the requirements query, _infer_input_size runs
InferInputSize ==
    /\ pc = "start"
    /\ \E q \in QueryOutcomes :
        LET r == _infer_input_size(q)
        IN  /\ requirements' = Some(q)
            /\ raised' = r.exc
            /\ input_size' = IF r.exc = "none" THEN r.value ELSE <<>>
            /\ pc' = IF r.exc = "none" THEN "inferred" ELSE "raised"
    /\ UNCHANGED <<prepVars, imageVars, outputVars, labelVars, topkVars>>

\* line 441: args.model is read; the frame of _infer_input_size is gone
PickPreprocessConfig ==
    /\ pc = "inferred"
    /\ \E path \in ModelPaths :
        /\ model_path' = path
        /\ preprocess' = Some(_pick_preprocess_config(path, input_size[1], input_size[2]))
    /\ requirements' = None
    /\ pc' = "configured"
    /\ UNCHANGED <<raised, input_size, imageVars, outputVars, labelVars, topkVars>>

\* lines 438-451: the image is opened and _load_image runs with channels = 3
LoadImage ==
    /\ pc = "configured"
    /\ \E size \in ImageSizes :
        LET r == _load_image(size, 3, preprocess[1])
        IN  /\ image_size' = size
            /\ raised' = r.exc
            /\ resized' = IF r.exc = "none" THEN r.value.resized ELSE <<>>
            /\ crop_box' = IF r.exc = "none" THEN r.value.box ELSE <<>>
            /\ pc' = IF r.exc = "none" THEN "loaded" ELSE "raised"
    /\ UNCHANGED <<shapeVars, prepVars, outputVars, labelVars, topkVars>>

Next == InferInputSize \/ PickPreprocessConfig \/ LoadImage

Spec == Init /\ [][Next]_vars

-----------------------------------------------------------------------------
(* _load_image on its own, for any resize and crop sizes a caller passes. *)

AnyConfigs ==
    {Config(r, ch, cw, ImagenetMean, ImagenetStd, "BILINEAR") :
        r \in -1..MaxResize, ch \in 0..MaxCrop, cw \in 0..MaxCrop}

InitLoadImage ==
    /\ pc = "configured"
    /\ raised = "none"
    /\ requirements = None
    /\ input_size = <<>>
    /\ model_path = <<>>
    /\ preprocess \in {Some(c) : c \in AnyConfigs}
    /\ image_size = <<>>
    /\ resized = <<>>
    /\ crop_box = <<>>
    /\ out_requirements = None
    /\ output_dtype = ""
    /\ num_elements = 0
    /\ labels_file = None
    /\ metadata_file = None
    /\ output_size = 0
    /\ synsets = None
    /\ metadata = None
    /\ labels = None
    /\ warned = FALSE
    /\ flat = <<>>
    /\ top_k = 0
    /\ printed = <<>>

NextLoadImage == LoadImage

SpecLoadImage == InitLoadImage /\ [][NextLoadImage]_vars

-----------------------------------------------------------------------------
(* _classify after the runtime call: lines 458-462, one function at a time. *)

\* lines 458-459
InitOutput ==
    /\ pc = "ran"
    /\ raised = "none"
    /\ requirements = None
    /\ input_size = <<>>
    /\ model_path = <<>>
    /\ preprocess = None
    /\ image_size = <<>>
    /\ resized = <<>>
    /\ crop_box = <<>>
    /\ out_requirements \in {Some(d) : d \in OutputRequirementDicts}
    /\ output_dtype = ""
    /\ num_elements = 0
    /\ labels_file = None
    /\ metadata_file = None
    /\ output_size = 0
    /\ synsets = None
    /\ metadata = None
    /\ labels = None
    /\ warned = FALSE
    /\ flat = <<>>
    /\ top_k = 0
    /\ printed = <<>>

ReadOutput ==
    /\ pc = "ran"
    /\ LET r == _read_output(out_requirements[1])
       IN  /\ output_dtype' = r.dtype
           /\ num_elements' = r.num_elements
           /\ raised' = r.exc
           /\ pc' = IF r.exc = "none" THEN "decoded" ELSE "raised"
    /\ UNCHANGED <<out_requirements, shapeVars, prepVars, imageVars, labelVars, topkVars>>

NextOutput == ReadOutput

SpecOutput == InitOutput /\ [][NextOutput]_vars

\* line 461: output_array.size is at least 1 when _read_output returned
InitLabels ==
    /\ pc = "decoded"
    /\ raised = "none"
    /\ requirements = None
    /\ input_size = <<>>
    /\ model_path = <<>>
    /\ preprocess = None
    /\ image_size = <<>>
    /\ resized = <<>>
    /\ crop_box = <<>>
    /\ out_requirements = None
    /\ output_dtype = ""
    /\ num_elements = 0
    /\ labels_file \in {Some(f) : f \in LabelFiles}
    /\ metadata_file = None
    /\ output_size \in OutputSizes
    /\ synsets = None
    /\ metadata = None
    /\ labels = None
    /\ warned = FALSE
    /\ flat = <<>>
    /\ top_k = 0
    /\ printed = <<>>

\* lines 238-246; the metadata file is what open() finds when line 230 is reached
PickLabelsForOutput ==
    /\ pc = "decoded"
    /\ LET rec == Reconcile(labels_file[1], output_size)
       IN  \E meta_file \in (IF rec.exc = "none" /\ rec.value # None
                             THEN MetadataFiles ELSE {NoPath}) :
            LET r == _build_imagenet_labels(labels_file[1], meta_file, output_size)
            IN  /\ metadata_file' =
                     IF rec.exc = "none" /\ rec.value # None THEN Some(meta_file) ELSE None
                /\ synsets' = r.synsets
                /\ metadata' = r.metadata
                /\ labels' = r.value
                /\ raised' = r.exc
                /\ warned' = (r.exc = "none" /\ r.value = None)
                /\ pc' = IF r.exc = "none" THEN "labelled" ELSE "raised"
    /\ UNCHANGED <<labels_file, output_size, shapeVars, prepVars, imageVars, outputVars,
                   topkVars>>

NextLabels == PickLabelsForOutput

SpecLabels == InitLabels /\ [][NextLabels]_vars

\* line 462: labels is None or a table of the output's length
InitTopk ==
    /\ pc = "labelled"
    /\ raised = "none"
    /\ requirements = None
    /\ input_size = <<>>
    /\ model_path = <<>>
    /\ preprocess = None
    /\ image_size = <<>>
    /\ resized = <<>>
    /\ crop_box = <<>>
    /\ out_requirements = None
    /\ output_dtype = ""
    /\ num_elements = 0
    /\ labels_file = None
    /\ metadata_file = None
    /\ output_size = 0
    /\ synsets = None
    /\ metadata = None
    /\ flat \in ScoreVectors
    /\ labels \in {None, Some(TableOf(Len(flat)))}
    /\ warned = FALSE
    /\ top_k \in TopKValues
    /\ printed = <<>>

PrintTopk ==
    /\ pc = "labelled"
    /\ \E order \in ArgsortOutcomes(flat) :
        printed' = _print_topk(flat, labels, top_k, order)
    /\ pc' = "printed"
    /\ UNCHANGED <<raised, flat, top_k, labels, labels_file, metadata_file, output_size,
                   synsets, metadata, warned, shapeVars, prepVars, imageVars, outputVars>>

NextTopk == PrintTopk

SpecTopk == InitTopk /\ [][NextTopk]_vars

-----------------------------------------------------------------------------
(* Properties of the Shape Inferrer, checked under Spec. *)

\* the lists a requirements dict holds under any of its dimension keys
ListedDims(d) == {d[k] : k \in DOMAIN d}

HasNonNumeric(l) == \E i \in 1..Len(l) : ~l[i].num

\* the outcomes C5 names: the query throws, the requirements are absent, no
\* dimension entry or only empty ones, non-numeric entries, a rank other than 3 or 4
Malformed(q) ==
    \/ q.kind \in {"raise", "none"}
    \/ \A l \in ListedDims(q.dict) : l = <<>>
    \/ \A l \in ListedDims(q.dict) : l = <<>> \/ HasNonNumeric(l)
    \/ \A l \in ListedDims(q.dict) : l = <<>> \/ Len(l) \notin {3, 4}

\* C5: for every malformed outcome of the requirements query, _infer_input_size
\* returns (224, 224) and no exception escapes it.
C5_NeverRaises ==
    (requirements # None /\ Malformed(requirements[1]))
        => (raised = "none" /\ input_size = <<224, 224>>)

\* the 3-element rule of C6
Expected3(e) ==
    IF e[1] = 3 THEN <<e[2], e[3]>>
    ELSE IF e[3] = 3 THEN <<e[1], e[2]>>
    ELSE <<224, 224>>

\* the rule of C6 for an integer list
ExpectedSize(d) ==
    IF Len(d) = 4
    THEN IF d[2] = 3 THEN <<d[3], d[4]>>
         ELSE IF d[4] = 3 THEN <<d[2], d[3]>>
         ELSE IF d[1] = 1 \/ d[1] = -1 THEN Expected3(<<d[2], d[3], d[4]>>)
         ELSE <<224, 224>>
    ELSE IF Len(d) = 3 THEN Expected3(d)
    ELSE <<224, 224>>

\* the requirements hold one non-empty, all-integer list, under "dimensions"
IntegerDimsQueried ==
    /\ requirements # None
    /\ requirements[1].kind = "dict"
    /\ DOMAIN requirements[1].dict = {"dimensions"}
    /\ requirements[1].dict["dimensions"] # <<>>
    /\ ~HasNonNumeric(requirements[1].dict["dimensions"])

QueriedDims ==
    LET l == requirements[1].dict["dimensions"] IN [i \in 1..Len(l) |-> l[i].val]

\* C6: for an integer dimension list of length 4 the result is (d[2], d[3]) if
\* d[1] = 3, else (d[1], d[2]) if d[3] = 3, else, for d[0] in {1, -1}, what the
\* 3-element rule gives for (d[1], d[2], d[3]); for a list of length 3 it is
\* (e[1], e[2]) if e[0] = 3, else (e[0], e[1]) if e[2] = 3; every other list
\* gives (224, 224).
C6_LayoutDisambiguation ==
    IntegerDimsQueried
        => (raised = "none" /\ pc = "inferred" /\ input_size = ExpectedSize(QueriedDims))

\* C6 witness: NCHW (1, 3, 192, 224) was queried and gave (192, 224)
C6_Witness ==
    /\ IntegerDimsQueried
    /\ QueriedDims = <<1, 3, 192, 224>>
    /\ input_size = <<192, 224>>

-----------------------------------------------------------------------------
(* Properties of the Preprocess Selector and the crop geometry, under Spec. *)

\* n is num/den rounded to the nearest integer (den > 0)
IsNearest(n, num, den) == 2 * (n * den - num) \in (0 - den)..den

\* ... and, when num/den lies halfway between two integers, the even one
IsRounded(n, num, den) ==
    /\ IsNearest(n, num, den)
    /\ (2 * (num % den) = den => n % 2 = 0)

\* the values of --model whose basename names no known family
GenericPaths == {
    <<"m","o","b","i","l","e","n","e","t","_","v","2",".","t","f","l","i","t","e">>,
    <<"e","f","f","i","c","i","e","n","t","n","e","t","_","b","7","/","r","e","s","n","e","t","5","0",".","t","f","l","i","t","e">>,
    <<"e","f","f","i","c","i","e","n","t","n","e","t","_","v","2",".","t","f","l","i","t","e">>
}

GenericConfigured == preprocess # None /\ model_path \in GenericPaths

\* what C8 says of everything but resize_size
GenericCropAndNormalization ==
    LET cfg == preprocess[1]
    IN  /\ cfg.crop_height = (IF input_size[1] > 0 THEN input_size[1] ELSE 224)
        /\ cfg.crop_width = (IF input_size[2] > 0 THEN input_size[2] ELSE 224)
        /\ cfg.mean = <<485, 456, 406>>
        /\ cfg.std = <<229, 224, 225>>
        /\ cfg.resample = "BILINEAR"

\* C8 as stated: for a model of no known family, crop_height and crop_width are
\* the inferred sizes (224 where not positive) and resize_size is the crop size
\* divided by 0.875, rounded to the nearest integer, for non-square sizes too.
C8_ResizeFromCropSize ==
    GenericConfigured
        => /\ GenericCropAndNormalization
           /\ IsNearest(preprocess[1].resize_size, 8 * preprocess[1].crop_height, 7)
           /\ IsNearest(preprocess[1].resize_size, 8 * preprocess[1].crop_width, 7)

\* C8 amended: resize_size is the larger of crop_height and crop_width divided
\* by 0.875, rounded to the nearest integer.
C8_ResizeFromLargerCrop ==
    GenericConfigured
        => /\ GenericCropAndNormalization
           /\ IsNearest(preprocess[1].resize_size,
                        8 * Max(preprocess[1].crop_height, preprocess[1].crop_width), 7)

\* C8 witness: inferred (-1, 192) gave crop 224 x 192 and resize 256
C8_Witness ==
    /\ pc = "configured"
    /\ GenericConfigured
    /\ input_size = <<-1, 192>>
    /\ preprocess[1].crop_height = 224
    /\ preprocess[1].crop_width = 192
    /\ preprocess[1].resize_size = 256

\* C10: for every config the selector returns and every image, all config sizes
\* are positive, _load_image does not raise, and the crop box lies inside the
\* resized image: 0 <= left, 0 <= top, left + crop_width <= new_width,
\* top + crop_height <= new_height.
C10_CropInsideResized ==
    /\ raised # "ValueError"
    /\ preprocess # None
        => /\ preprocess[1].resize_size > 0
           /\ preprocess[1].crop_height > 0
           /\ preprocess[1].crop_width > 0
    /\ pc = "loaded"
        => /\ 0 <= crop_box[1]
           /\ 0 <= crop_box[2]
           /\ crop_box[3] = crop_box[1] + preprocess[1].crop_width
           /\ crop_box[4] = crop_box[2] + preprocess[1].crop_height
           /\ crop_box[3] <= resized[1]
           /\ crop_box[4] <= resized[2]

\* C10 witness: a generic 192 x 224 crop cut out of a 3 x 5 image resized to
\* 256 x 427, with both offsets positive
C10_Witness ==
    /\ pc = "loaded"
    /\ GenericConfigured
    /\ image_size = <<3, 5>>
    /\ preprocess[1].crop_height = 192
    /\ preprocess[1].crop_width = 224
    /\ resized = <<256, 427>>
    /\ crop_box = <<16, 118, 240, 310>>

-----------------------------------------------------------------------------
(* Property of the resize step, under SpecLoadImage. *)

\* C9: for an image of width w and height h and resize_size r >= 1, the shorter
\* resized side is r: if w < h then new_width = r and new_height = round(h*r/w),
\* otherwise new_height = r and new_width = round(w*r/h); the longer side is
\* never smaller than r.
C9_ShorterSideResize ==
    /\ (pc # "configured" /\ preprocess[1].resize_size >= 1
            /\ preprocess[1].crop_height >= 1 /\ preprocess[1].crop_width >= 1)
        => pc = "loaded"
    /\ pc = "loaded"
        => LET w == image_size[1]
               h == image_size[2]
               r == preprocess[1].resize_size
           IN  /\ Min(resized[1], resized[2]) = r
               /\ Max(resized[1], resized[2]) >= r
               /\ w < h => (resized[1] = r /\ IsRounded(resized[2], h * r, w))
               /\ w >= h => (resized[2] = r /\ IsRounded(resized[1], w * r, h))

\* C9 witness: a 2 x 5 image with resize_size 1 became 1 x 2 (2.5 rounds to 2)
C9_Witness ==
    /\ pc = "loaded"
    /\ image_size = <<2, 5>>
    /\ preprocess[1].resize_size = 1
    /\ resized = <<1, 2>>

-----------------------------------------------------------------------------
(* Property of the Output Decoder, under SpecOutput. *)

\* the supported-types list of the output requirements, empty when absent
SupportedTypes ==
    LET req == out_requirements[1]
    IN  IF "supported_types" \in DOMAIN req THEN req["supported_types"] ELSE <<>>

Listed(id) == \E i \in 1..Len(SupportedTypes) : SupportedTypes[i] = id

\* the LiteRT identifier of a numpy type
ElementTypeOf(dtype) ==
    IF dtype = "float32" THEN 1
    ELSE IF dtype = "int8" THEN 9
    ELSE IF dtype = "uint8" THEN 3
    ELSE IF dtype = "int32" THEN 2
    ELSE 0

\* the type the preference order float32 > int8 > uint8 > int32 picks
PreferredType ==
    IF Listed(1) THEN "float32"
    ELSE IF Listed(9) THEN "int8"
    ELSE IF Listed(3) THEN "uint8"
    ELSE "int32"

SomePreferredListed == Listed(1) \/ Listed(9) \/ Listed(3) \/ Listed(2)

\* C4 as stated: the first of float32(1), int8(9), uint8(3), int32(2) that is
\* listed decides, whatever the order of the list; a non-empty list with none
\* of the four makes its first listed type the one used; an empty or absent
\* list gives float32.
C4_FirstListedTypeUsed ==
    pc # "ran"
        => /\ SomePreferredListed => output_dtype = PreferredType
           /\ (~SomePreferredListed /\ SupportedTypes # <<>>)
                => ElementTypeOf(output_dtype) = SupportedTypes[1]
           /\ SupportedTypes = <<>> => output_dtype = "float32"

\* C4 amended: a non-empty list with none of the four preferred identifiers
\* gives float32 as well.
C4_PreferenceOrFloat32 ==
    pc # "ran"
        => /\ SomePreferredListed => output_dtype = PreferredType
           /\ ~SomePreferredListed => output_dtype = "float32"

\* C4 witness: the list (uint8, int8, int32) gave int8
C4_Witness ==
    /\ pc = "decoded"
    /\ SupportedTypes = <<3, 9, 2>>
    /\ output_dtype = "int8"

-----------------------------------------------------------------------------
(* Properties of the Label Resolver, under SpecLabels. *)

\* the class file could be opened
ClassFileRead == labels_file # None /\ labels_file[1].kind = "file"

IsBlankLine(line) == line = <<" ">>
IsClassLine(line) == ~IsBlankLine(line)

\* the identifier each line of the class file stands for
ClassIdOfLine(line) == IF line = <<" ", "a", " ">> THEN <<"a">> ELSE line

\* the class identifiers of the class file, in file order
ClassIds ==
    LET kept == SelectSeq(labels_file[1].lines, IsClassLine)
    IN  [i \in 1..Len(kept) |-> ClassIdOfLine(kept[i])]

StartsWith(text, prefix) ==
    Len(text) >= Len(prefix) /\ SubSeq(text, 1, Len(prefix)) = prefix

\* the table has one entry per identifier, in file order
TableFollowsIds(table) ==
    /\ Len(table) = Len(ClassIds)
    /\ \A i \in 1..Len(ClassIds) : StartsWith(table[i], ClassIds[i])

\* the table is the background entry followed by the identifiers in file order
TableFollowsBackgroundAndIds(table) ==
    /\ Len(table) = Len(ClassIds) + 1
    /\ StartsWith(table[1], <<"b","a","c","k","g","r","o","u","n","d">>)
    /\ \A i \in 1..Len(ClassIds) : StartsWith(table[i + 1], ClassIds[i])

MetadataUnreadable == metadata_file # None /\ metadata_file[1].kind = "missing"

\* C1 as stated, for the runs in which every open() succeeds: with n class
\* identifiers and output size m the result is a table of the n identifiers in
\* file order when m = n, "background" followed by them when m = n + 1, and
\* absent for every other m; a returned table has length m.
C1_ReconciledByLength ==
    (pc # "decoded" /\ ClassFileRead /\ ~MetadataUnreadable)
        => /\ raised = "none"
           /\ output_size = Len(ClassIds)
                => (labels # None /\ TableFollowsIds(labels[1]))
           /\ output_size = Len(ClassIds) + 1
                => (labels # None /\ TableFollowsBackgroundAndIds(labels[1]))
           /\ output_size \notin {Len(ClassIds), Len(ClassIds) + 1} => labels = None
           /\ labels # None => Len(labels[1]) = output_size

\* n >= 1 and m is n or n + 1
Reconcilable == Len(ClassIds) >= 1 /\ output_size \in {Len(ClassIds), Len(ClassIds) + 1}

\* C1 amended: an empty class list gives absent for every m (m = n = 0 and
\* m = 1 included); for n >= 1, m = n gives the n identifiers in file order and
\* m = n + 1 gives "background" followed by them, once the metadata file is
\* read (where its path names no file the open raises instead); every other
\* m gives absent without the metadata file being opened; a returned table has
\* length m.
C1_ReconciledNonEmpty ==
    (pc # "decoded" /\ ClassFileRead)
        => /\ ~Reconcilable => (labels = None /\ raised = "none" /\ metadata_file = None)
           /\ Reconcilable
                => /\ metadata_file # None
                   /\ MetadataUnreadable => (raised = "FileNotFoundError" /\ labels = None)
                   /\ ~MetadataUnreadable => (raised = "none" /\ labels # None)
           /\ (labels # None /\ output_size = Len(ClassIds)) => TableFollowsIds(labels[1])
           /\ (labels # None /\ output_size = Len(ClassIds) + 1)
                => TableFollowsBackgroundAndIds(labels[1])
           /\ labels # None => Len(labels[1]) = output_size

\* C1 witness: class file (a, b), output size 3, table (background, a, b)
C1_Witness ==
    /\ pc = "labelled"
    /\ ClassFileRead
    /\ ClassIds = << <<"a">>, <<"b">> >>
    /\ output_size = 3
    /\ labels = Some(<< <<"b","a","c","k","g","r","o","u","n","d">>, <<"a">>, <<"b">> >>)

\* the identifier -> label pair each metadata line stands for, none for "a"
MetaKeyOfLine(line) ==
    IF line = <<"a", TAB, "x">> \/ line = <<"a", TAB, "a">> THEN <<"a">>
    ELSE IF line = <<" ", "b", TAB, "y", TAB, "z", " ">> THEN <<"b">>
    ELSE IF line = <<"a">> THEN <<>>
    ELSE <<"b","a","c","k","g","r","o","u","n","d">>

MetaLabelOfLine(line) ==
    IF line = <<"a", TAB, "x">> THEN <<"x">>
    ELSE IF line = <<"a", TAB, "a">> THEN <<"a">>
    ELSE IF line = <<" ", "b", TAB, "y", TAB, "z", " ">> THEN <<"y", TAB, "z">>
    ELSE IF line = <<"a">> THEN <<>>
    ELSE <<"x">>

\* the lines of the metadata file that map identifier s
MappingLines(s) ==
    IF metadata_file = None THEN {}
    ELSE {i \in 1..Len(metadata_file[1].lines) :
            MetaKeyOfLine(metadata_file[1].lines[i]) = s}

IsMapped(s) == MappingLines(s) # {}

\* M[s]: the last line mapping s decides
MappedLabel(s) ==
    LET last == CHOOSE i \in MappingLines(s) : \A j \in MappingLines(s) : j <= i
    IN  MetaLabelOfLine(metadata_file[1].lines[last])

\* the reconciled identifier list
ReconciledIds ==
    IF output_size = Len(ClassIds) + 1
    THEN << <<"b","a","c","k","g","r","o","u","n","d">> >> \o ClassIds
    ELSE ClassIds

TableReturned == pc = "labelled" /\ ClassFileRead /\ labels # None

\* C2 as stated: the label at position i is M[s] when the identifier s at
\* position i is mapped and M[s] differs from s, and s itself otherwise.
C2_LabelIsMappedText ==
    TableReturned
        => \A i \in 1..Len(ReconciledIds) :
              LET s == ReconciledIds[i]
              IN  labels[1][i] =
                    (IF IsMapped(s) /\ MappedLabel(s) # s THEN MappedLabel(s) ELSE s)

\* C2 amended: the label at position i is s, a space and M[s] when s is mapped
\* and M[s] differs from s, and s itself otherwise.
C2_LabelIsIdThenMappedText ==
    TableReturned
        => /\ Len(labels[1]) = Len(ReconciledIds)
           /\ \A i \in 1..Len(ReconciledIds) :
                LET s == ReconciledIds[i]
                IN  labels[1][i] =
                      (IF IsMapped(s) /\ MappedLabel(s) # s
                       THEN s \o <<" ">> \o MappedLabel(s)
                       ELSE s)

\* C2 witness: identifiers (a, b), metadata "a<TAB>a" then "a<TAB>x": a is
\* mapped to x, b is unmapped
C2_Witness ==
    /\ TableReturned
    /\ ReconciledIds = << <<"a">>, <<"b">> >>
    /\ metadata_file = Some(FileOf(<< <<"a", TAB, "a">>, <<"a", TAB, "x">> >>))
    /\ labels = Some(<< <<"a", " ", "x">>, <<"b">> >>)

\* C3: with a readable class file whose (background-adjusted) length equals
\* the output size and a metadata path that names no file, resolution uses an
\* empty mapping and returns the full table of class identifiers; nothing is
\* raised.
C3_MissingMetadataIsEmptyMapping ==
    (pc # "decoded" /\ ClassFileRead /\ Reconcilable /\ MetadataUnreadable)
        => /\ raised = "none"
           /\ pc = "labelled"
           /\ labels = Some(ReconciledIds)

-----------------------------------------------------------------------------
(* Property of top-k reporting, under SpecTopk. *)

PrintedIndices == {printed[r].idx : r \in 1..Len(printed)}

\* C7: for a vector of length n >= 1 and top_k >= 0, exactly min(top_k, n)
\* lines are printed, ranked 1..min(top_k, n); their indices are pairwise
\* distinct, their scores do not increase with the rank, and no index left out
\* has a score above that of a printed one.
C7_TopKSelection ==
    (pc = "printed" /\ top_k >= 0)
        => /\ Len(printed) = (IF top_k <= Len(flat) THEN top_k ELSE Len(flat))
           /\ \A r \in 1..Len(printed) : printed[r].rank = r
           /\ \A r, q \in 1..Len(printed) : r # q => printed[r].idx # printed[q].idx
           /\ \A r \in 1..(Len(printed) - 1) :
                flat[printed[r].idx + 1] >= flat[printed[r + 1].idx + 1]
           /\ \A j \in (0..(Len(flat) - 1)) \ PrintedIndices :
                \A e \in PrintedIndices : flat[j + 1] <= flat[e + 1]

====
